---- MODULE Spec2Model ----
(***************************************************************************)
(* State-machine model of the Smart NVR dashboard handlers in              *)
(* metro-ai-suite/smart-nvr/ui/interface/interface.py: the submission      *)
(* handler wrapper_fn with process_and_poll, the background poll loop      *)
(* poll_summary_status, the status refresh handlers, the response          *)
(* formatters and the rules table.  Times are whole seconds on one local   *)
(* time axis.  Toast texts are the source's literals without their leading *)
(* emoji.                                                                  *)
(***************************************************************************)
EXTENDS Integers, Sequences, FiniteSets, TLC

\* ---------------------------------------------------------------- bounds
MaxThreads == 2
MaxPolls == 2
MaxRules == 2
MaxSummaries == 2
MaxItems == 2

\* ------------------------------------------------------ program constants
\* timedelta(hours=24), in seconds
Hours24 == 86400

None == "None"
Absent == "absent"

MsgInvalidStart == "Error: Invalid start time format."
MsgFuture == "Error: Start time cannot be in the future."
MsgTooOld == "Error: Start time must be within the last 24 hours."
MsgDuration == "Error: Duration must be a number greater than 0 seconds."
MsgEndFuture == "Error: End time (start + duration) cannot be in the future."
MsgJsonDump == "json.dumps(result_dict)"

\* ------------------------------------------------------------ input sets
\* datetime.now() as read by wrapper_fn
NowValues == {Hours24 + 10}

Cameras == {"cam1"}

\* choices of action_dropdown
Actions == {"Summarize", "Add to Search"}

Sids == {"s1", "s2"}

\* start_input values: a float timestamp (what gr.DateTime delivers), an int,
\* a datetime, or anything else (None, a string)
StartOffsets == {0 - Hours24 - 1, 0 - Hours24, 0 - 2, 0 - 1, 0, 1}

StartValues(now) ==
    [kind : {"float"}, t : {now + o : o \in StartOffsets}]
        \cup [kind : {"int", "datetime"}, t : {now - 2, now + 1}]
        \cup {[kind |-> "other", t |-> 0]}

\* duration_input values: gr.Number(precision=0) delivers an int or None;
\* "text" stands for any value int() cannot convert
DurationValues ==
    [kind : {"int"}, v : -1 .. 2] \cup {[kind |-> "none", v |-> 0], [kind |-> "text", v |-> 0]}

\* --------------------------------------------------------- wrapper_fn checks
\* lines 202-206: isinstance dispatch and datetime.fromtimestamp
ToDatetime(start) ==
    IF start.kind \in {"float", "int", "datetime"}
    THEN [ok |-> TRUE, dt |-> start.t]
    ELSE [ok |-> FALSE, dt |-> 0]

\* int(duration): TypeError for None, ValueError for text
IntOf(duration) ==
    IF duration.kind = "int"
    THEN [ok |-> TRUE, val |-> duration.v]
    ELSE [ok |-> FALSE, val |-> 0]

\* mutant of DurationRejected: the test is duration_sec < 0
DurationRejected_ZeroAccepted(duration) ==
    LET d == IntOf(duration)
    IN  IF d.ok THEN d.val < 0 ELSE TRUE

\* lines 237-249: the try block, True when it ends in the except branch
DurationRejected(duration) ==
    LET d == IntOf(duration)
    IN  IF d.ok THEN d.val <= 0 ELSE TRUE

\* mutant of Validate: the 24-hour check of lines 226-234 is missing
Validate_NoWindowCheck(now, start, duration) ==
    LET s == ToDatetime(start)
    IN  IF ~s.ok THEN MsgInvalidStart
        ELSE IF s.dt > now THEN MsgFuture
        ELSE IF DurationRejected(duration) THEN MsgDuration
        ELSE IF s.dt + IntOf(duration).val > now THEN MsgEndFuture
        ELSE "ok"

\* mutant of Validate: the end-time check of lines 251-261 is missing
Validate_NoEndCheck(now, start, duration) ==
    LET min_time == now - Hours24
        s == ToDatetime(start)
    IN  IF ~s.ok THEN MsgInvalidStart
        ELSE IF s.dt > now THEN MsgFuture
        ELSE IF s.dt < min_time THEN MsgTooOld
        ELSE IF DurationRejected(duration) THEN MsgDuration
        ELSE "ok"

\* mutant of Validate: the duration is checked before the start time is
\* compared with now
Validate_DurationFirst(now, start, duration) ==
    LET min_time == now - Hours24
        s == ToDatetime(start)
    IN  IF ~s.ok THEN MsgInvalidStart
        ELSE IF DurationRejected(duration) THEN MsgDuration
        ELSE IF s.dt > now THEN MsgFuture
        ELSE IF s.dt < min_time THEN MsgTooOld
        ELSE IF s.dt + IntOf(duration).val > now THEN MsgEndFuture
        ELSE "ok"

\* lines 198-261: the message of the first failing check, or "ok"
Validate(now, start, duration) ==
    LET min_time == now - Hours24
        s == ToDatetime(start)
    IN  IF ~s.ok THEN MsgInvalidStart
        ELSE IF s.dt > now THEN MsgFuture
        ELSE IF s.dt < min_time THEN MsgTooOld
        ELSE IF DurationRejected(duration) THEN MsgDuration
        ELSE IF s.dt + IntOf(duration).val > now THEN MsgEndFuture
        ELSE "ok"

\* ------------------------------------------------- collaborator responses
\* result.get("summary_id"): missing, a string (possibly empty), or a dict
\* whose first key is id (empty dict: id = "")
RawIds ==
    {[form |-> "none", id |-> ""], [form |-> "str", id |-> ""], [form |-> "dict", id |-> ""]}
        \cup [form : {"str"}, id : Sids] \cup {[form |-> "dict", id |-> "s1"]}

NoRaw == [form |-> "none", id |-> ""]

\* what process_video(camera, start, duration, action) does: raises, returns
\* something that is not a dict, or returns {status?, summary_id?, message?}
PVRaise == [kind |-> "raise", status |-> Absent, summary_id |-> NoRaw, message |-> Absent]

PVOther == [kind |-> "other", status |-> Absent, summary_id |-> NoRaw, message |-> Absent]

PVDicts ==
    [kind : {"dict"}, status : {"success"}, summary_id : RawIds, message : {Absent}]
        \cup [kind : {"dict"}, status : {"error"},
              summary_id : {NoRaw, [form |-> "str", id |-> "s1"]}, message : {Absent}]
        \cup [kind : {"dict"}, status : {Absent},
              summary_id : {NoRaw, [form |-> "str", id |-> "s1"]}, message : {Absent}]
        \cup [kind : {"dict"}, status : {"success"},
              summary_id : {NoRaw, [form |-> "str", id |-> "s1"]}, message : {"msg"}]

PVResponses == {PVRaise, PVOther} \cup PVDicts

\* None where a result dict is expected
NoResult == [kind |-> "none", status |-> Absent, summary_id |-> NoRaw, message |-> Absent]

\* what fetch_summary_status(summary_id) does: raises, returns a string (empty,
\* blank, not JSON, JSON that is not an object, a JSON object), a dict, or
\* another type
FSRaise == [kind |-> "raise", body |-> "", status |-> Absent]

FSOther == [kind |-> "other", body |-> "", status |-> Absent]

FSStrings ==
    [kind : {"str"}, body : {"empty", "blank", "badjson", "nondict"}, status : {Absent}]
        \cup [kind : {"str"}, body : {"dict"}, status : {"pending", "completed"}]

FSDicts == [kind : {"dict"}, body : {""}, status : {"pending", "completed", "failed", Absent}]

FSResponses == {FSRaise, FSOther} \cup FSStrings \cup FSDicts

\* ------------------------------------------------------------- markdown
Md(h, body) == [h |-> h, body |-> body]

MdEmpty == Md("", "")

MdProcessing == Md("", "Processing...")

MdError == Md("Error", "Error fetching status")

\* lines 161-166
extract_summary_id(raw_id) ==
    IF raw_id.form = "none" \/ raw_id.id = "" THEN None ELSE raw_id.id

\* lines 113-126 of poll_summary_status: ok is FALSE when the try block raises
ParseStatus(raw) ==
    CASE raw.kind = "str" ->
            IF raw.body = "dict"
            THEN [ok |-> TRUE, status |-> raw.status]
            ELSE [ok |-> FALSE, status |-> Absent]
      [] raw.kind = "dict" ->
            [ok |-> TRUE, status |-> IF raw.status = Absent THEN "unknown" ELSE raw.status]
      [] OTHER -> [ok |-> FALSE, status |-> Absent]

\* mutant of IsTerminal: "failed" does not end the loop
IsTerminal_CompletedOnly(status) == status = "completed"

\* lines 149-150
IsTerminal(status) == status \in {"completed", "failed"}

\* mutant of AssignStatusOutput: the assignment reaches the component
AssignStatusOutput_Shared(shown, markdown) == markdown

\* lines 147 and 155: status_output = ... rebinds the parameter of the loop;
\* the value shown by the status_output component stays what it was
AssignStatusOutput(shown, markdown) == shown

\* lines 297-310 and 316-328: the status text the refresh handlers return
RefreshMarkdown(raw) ==
    CASE raw.kind = "raise" -> MdError
      [] raw.kind = "dict" -> Md("Summary Status", raw.status)
      [] OTHER -> Md("Summary Status", "json")

\* ----------------------------------------------------------------- state
\* Of the six outputs of wrapper_fn, summary_id_state, status_output and
\* polling_enabled_state are state; the result and the toast text are kept in
\* call, the record of the activation.  Toast visibility is not modelled.
VARIABLES
    polling_threads,        \* summary id -> index in threads of the registered loop
    threads,                \* every poll loop thread started so far
    call,                   \* the wrapper_fn activation (one at a time) and what it returned
    summary_id_state,
    status_output,
    polling_enabled_state,
    rule_responses,         \* what fetch_rule_responses answers
    summary_response_table, \* the rows shown in the Summary Responses table
    handled,                \* the table handler that ended last, and whether it raised
    search_responses,       \* what fetch_search_responses answers
    search_response_table,  \* the rows shown in the Search Responses table
    rules,                  \* the rules the backend holds, as fetch_rules lists them
    rules_table,            \* the rows shown in the Current Rules table
    delete_status,          \* the Deletion Status textbox
    evt                     \* the last rules_table.select event and the deletions it asked for

ui == <<summary_id_state, status_output, polling_enabled_state>>

\* the Summarize/Search tab with its poll loops
dash == <<polling_threads, threads, call, summary_id_state, status_output,
          polling_enabled_state>>

\* the Auto-Route Events tab
summaryv == <<rule_responses, summary_response_table>>

searchv == <<search_responses, search_response_table>>

rulesv == <<rules, rules_table, delete_status, evt>>

tables == <<rule_responses, summary_response_table, handled, search_responses,
            search_response_table, rules, rules_table, delete_status, evt>>

vars == <<polling_threads, threads, call, summary_id_state, status_output,
          polling_enabled_state, rule_responses, summary_response_table, handled,
          search_responses, search_response_table, rules, rules_table, delete_status, evt>>

NoStart == [kind |-> "other", t |-> 0]

NoDuration == [kind |-> "none", v |-> 0]

IdleCall ==
    [pc |-> "idle", now |-> 0, camera |-> None, start |-> NoStart, duration |-> NoDuration,
     action |-> None, result |-> NoResult, summary_id |-> None,
     calls |-> 0, started |-> 0, stops |-> 0, outcome |-> "none", toast |-> ""]

InitDash ==
    /\ polling_threads = [s \in {} |-> 0]
    /\ threads = <<>>
    /\ call = IdleCall
    /\ summary_id_state = None
    /\ status_output = MdEmpty
    /\ polling_enabled_state = FALSE

NoHandler == [handler |-> "none", raised |-> FALSE]

\* no cell of the rules table has been selected yet
NoEvt == [value |-> None, row_value |-> <<>>, deleted |-> <<>>]

\* the Summary Responses table before its first refresh, the backend empty
InitSummary ==
    /\ rule_responses = [kind |-> "dict", entries |-> <<>>]
    /\ summary_response_table = <<>>

\* the Search Responses table before its first refresh, the backend empty
InitSearchTable ==
    /\ search_responses = [kind |-> "dict", entries |-> <<>>]
    /\ search_response_table = <<>>

\* the Current Rules table before ui.load, the backend without rules
InitRulesTable ==
    /\ rules = <<>>
    /\ rules_table = <<>>
    /\ delete_status = ""
    /\ evt = NoEvt

Init ==
    /\ InitDash
    /\ InitSummary
    /\ InitSearchTable
    /\ InitRulesTable
    /\ handled = NoHandler

\* ------------------------------------------------------------ wrapper_fn
\* what a returned tuple does to the output components
Outputs(sid, status, polling) ==
    /\ summary_id_state' = sid
    /\ status_output' = status
    /\ polling_enabled_state' = polling

\* line 265
Message(res) == IF res.message = Absent THEN MsgJsonDump ELSE res.message

\* process_and_poll and lines 265-288 end in an exception: process_video
\* raised, the result has no .get (lines 173, 265), or no "status" (line 176)
Raises(action, res) ==
    \/ res.kind # "dict"
    \/ action # "Add to Search" /\ res.status = Absent

\* mutant of PollWanted: the early return of lines 171-172 is missing
PollWanted_AnyAction(action, res) ==
    /\ res.kind = "dict"
    /\ res.status = "success"
    /\ extract_summary_id(res.summary_id) # None

\* lines 171-176: the branch that starts a poll loop is taken
PollWanted(action, res) ==
    /\ action # "Add to Search"
    /\ res.kind = "dict"
    /\ res.status = "success"
    /\ extract_summary_id(res.summary_id) # None

\* mutant of SetStop: the flag of the registered loop is left alone
SetStop_Skipped(ths, i) == ths

\* line 178
SetStop(ths, i) == [ths EXCEPT ![i].stop = TRUE]

\* lines 180-185: the thread object, before it has run
NewThread(sid) ==
    [sid |-> sid, stop |-> FALSE, pc |-> "check", polls |-> 0, after_stop |-> 0,
     last |-> "none"]

\* mutant of Register: the dictionary is rebuilt with the new entry alone
Register_DropsOthers(reg, sid, i) == [s \in {sid} |-> i]

\* line 187
Register(reg, sid, i) == [s \in DOMAIN reg \cup {sid} |-> IF s = sid THEN i ELSE reg[s]]

\* lines 198-261: a failed check returns the rejection
Reject(c, message) ==
    /\ call' = [c EXCEPT !.outcome = "rejected", !.toast = message]
    /\ Outputs(summary_id_state, MdEmpty, FALSE)
    /\ UNCHANGED <<polling_threads, threads, tables>>

\* lines 263-288 with process_and_poll, lines 169-176: process_video has
\* answered res; the handler ends here unless a poll loop is to be started
Forward(c, action, res) ==
    LET c1 == [c EXCEPT !.calls = 1, !.result = res]
        sid == extract_summary_id(res.summary_id)
    IN  IF Raises(action, res)
        THEN /\ call' = [c1 EXCEPT !.outcome = "raised"]
             /\ UNCHANGED <<polling_threads, threads, ui, tables>>
        ELSE IF PollWanted(action, res)
        THEN /\ Len(threads) < MaxThreads
             /\ call' = [c1 EXCEPT !.summary_id = sid,
                                   !.pc = IF sid \in DOMAIN polling_threads
                                          THEN "stopOld" ELSE "start"]
             /\ UNCHANGED <<polling_threads, threads, ui, tables>>
        ELSE IF action = "Summarize"
        THEN /\ call' = [c1 EXCEPT !.summary_id = sid, !.outcome = "returned",
                                   !.toast = Message(res)]
             /\ Outputs(sid, MdProcessing, TRUE)
             /\ UNCHANGED <<polling_threads, threads, tables>>
        ELSE /\ call' = [c1 EXCEPT !.outcome = "returned", !.toast = Message(res)]
             /\ Outputs(summary_id_state, MdEmpty, FALSE)
             /\ UNCHANGED <<polling_threads, threads, tables>>

\* lines 190-288; responses is what process_video may answer
wrapper_fn(now, camera, start, duration, action, responses) ==
    /\ call.pc = "idle"
    /\ LET v == Validate(now, start, duration)
           c == [IdleCall EXCEPT !.now = now, !.camera = camera, !.start = start,
                                 !.duration = duration, !.action = action]
       IN  IF v # "ok"
           THEN Reject(c, v)
           ELSE \E res \in responses : Forward(c, action, res)

\* lines 177-178
WStopOld ==
    /\ call.pc = "stopOld"
    /\ threads' = SetStop(threads, polling_threads[call.summary_id])
    /\ call' = [call EXCEPT !.pc = "start", !.stops = @ + 1]
    /\ UNCHANGED <<polling_threads, ui, tables>>

\* lines 180-186
WStart ==
    /\ call.pc = "start"
    /\ threads' = Append(threads, NewThread(call.summary_id))
    /\ call' = [call EXCEPT !.pc = "register", !.started = @ + 1]
    /\ UNCHANGED <<polling_threads, ui, tables>>

\* line 187
WRegister ==
    /\ call.pc = "register"
    /\ polling_threads' = Register(polling_threads, call.summary_id, Len(threads))
    /\ call' = [call EXCEPT !.pc = "return"]
    /\ UNCHANGED <<threads, ui, tables>>

\* lines 189 and 265-279
WReturn ==
    /\ call.pc = "return"
    /\ call' = [call EXCEPT !.pc = "idle", !.outcome = "returned",
                            !.toast = Message(call.result)]
    /\ Outputs(call.summary_id, MdProcessing, TRUE)
    /\ UNCHANGED <<polling_threads, threads, tables>>

\* --------------------------------------------------- poll_summary_status
\* mutant of PollCheck: the loop condition does not read the stop flag
PollCheck_IgnoresStop(i) ==
    /\ threads[i].pc = "check"
    /\ threads[i].polls < MaxPolls
    /\ threads' = [threads EXCEPT ![i].pc = "call"]
    /\ UNCHANGED <<polling_threads, call, ui, tables>>

\* line 109: while not stop_event.is_set()
PollCheck(i) ==
    /\ threads[i].pc = "check"
    /\ IF threads[i].stop
       THEN threads' = [threads EXCEPT ![i].pc = "done"]
       ELSE /\ threads[i].polls < MaxPolls
            /\ threads' = [threads EXCEPT ![i].pc = "call"]
    /\ UNCHANGED <<polling_threads, call, ui, tables>>

\* lines 130-143 and 154: the markdown the loop builds
PollMarkdown(p) ==
    IF p.ok THEN Md("Summary Status (Auto-Polling)", p.status) ELSE MdError

\* the loop after one pass through lines 110-156: last is the fetched status
\* ("error" when the try block raised), after_stop counts the calls of
\* fetch_summary_status started with the stop flag already set
Polled(t, raw) ==
    LET p == ParseStatus(raw)
        stay == p.ok /\ ~IsTerminal(p.status)
    IN  [t EXCEPT !.polls = @ + 1,
                  !.after_stop = IF t.stop THEN @ + 1 ELSE @,
                  !.last = IF p.ok THEN p.status ELSE "error",
                  !.pc = IF stay THEN "sleep" ELSE "done"]

\* lines 110-156: one fetch and what follows it up to the break or the sleep
PollFetch(i, raw) ==
    /\ threads[i].pc = "call"
    /\ threads' = [threads EXCEPT ![i] = Polled(threads[i], raw)]
    /\ status_output' = AssignStatusOutput(status_output, PollMarkdown(ParseStatus(raw)))
    /\ UNCHANGED <<polling_threads, call, summary_id_state, polling_enabled_state, tables>>

\* line 158
PollSleep(i) ==
    /\ threads[i].pc = "sleep"
    /\ threads' = [threads EXCEPT ![i].pc = "check"]
    /\ UNCHANGED <<polling_threads, call, ui, tables>>

\* one step of loop i, the fetch answered in any of the ways FSResponses lists
PollStep(i) ==
    /\ i \in 1 .. Len(threads)
    /\ \/ PollCheck(i)
       \/ \E raw \in FSResponses : PollFetch(i, raw)
       \/ PollSleep(i)

\* ------------------------------------------------------ refresh handlers
\* lines 293-310: the status text returned to status_output
refresh_summary_status(raw) ==
    /\ status_output' = IF summary_id_state = None THEN MdEmpty ELSE RefreshMarkdown(raw)
    /\ UNCHANGED <<polling_threads, threads, call, summary_id_state, polling_enabled_state,
                   tables>>

\* lines 312-328, run by polling_timer, which is active while
\* polling_enabled_state is True (lines 419-429, 441-445)
auto_refresh_summary_status(raw) ==
    /\ polling_enabled_state
    /\ status_output' = IF summary_id_state = None THEN MdEmpty ELSE RefreshMarkdown(raw)
    /\ UNCHANGED <<polling_threads, threads, call, summary_id_state, polling_enabled_state,
                   tables>>

\* ------------------------------------------------ format_summary_responses
RuleIds == {"r1", "r2", "r3"}

SummaryIds == {"a", "b"}

\* an item of a rule's summaries: a dict with or without "summary", or
\* something without .get
Items == [kind : {"dict"}, summary : {Absent, "t1"}] \cup {[kind |-> "str", summary |-> Absent]}

SummaryEntries == [summary_id : SummaryIds, item : Items]

\* a dict summary id -> item, in its iteration order
SummaryDicts ==
    {q \in UNION {[1 .. k -> SummaryEntries] : k \in 0 .. MaxSummaries} :
        \A i, j \in 1 .. Len(q) : i # j => q[i].summary_id # q[j].summary_id}

\* what a rule id maps to: a dict, None, or a non-empty value without .items
SummariesValues ==
    [kind : {"dict"}, entries : SummaryDicts]
        \cup {[kind |-> "none", entries |-> <<>>], [kind |-> "list", entries |-> <<>>]}

RuleEntries == [rule_id : RuleIds, summaries : SummariesValues]

\* a dict rule id -> summaries, in its iteration order
RuleDicts ==
    {q \in UNION {[1 .. k -> RuleEntries] : k \in 0 .. MaxRules} :
        \A i, j \in 1 .. Len(q) : i # j => q[i].rule_id # q[j].rule_id}

\* what fetch_rule_responses() does: raises, returns {"error": ...}, returns
\* something that is not a dict, or returns the mapping
RuleResponseValues ==
    [kind : {"dict"}, entries : RuleDicts]
        \cup [kind : {"raise", "error", "other"}, entries : {<<>>}]

\* line 358: if summaries
Truthy(summaries) ==
    \/ summaries.kind = "list"
    \/ summaries.kind = "dict" /\ summaries.entries # <<>>

\* line 361: message.get("summary", "No summary text")
ItemText(item) == IF item.summary = Absent THEN "No summary text" ELSE item.summary

\* mutant of SummaryRows: the else branch of lines 363-364 is missing
SummaryRows_NoPlaceholder(rule_id, summaries) ==
    [k \in 1 .. Len(summaries.entries) |->
        <<rule_id, summaries.entries[k].summary_id, ItemText(summaries.entries[k].item)>>]

\* lines 358-364: the rows of one rule id
SummaryRows(rule_id, summaries) ==
    IF Truthy(summaries)
    THEN [k \in 1 .. Len(summaries.entries) |->
            <<rule_id, summaries.entries[k].summary_id, ItemText(summaries.entries[k].item)>>]
    ELSE <<<<rule_id, "", "No summaries available.">>>>

\* lines 359-361 raise: summaries has no .items, or an item has no .get
SummariesRaise(summaries) ==
    /\ Truthy(summaries)
    /\ \/ summaries.kind # "dict"
       \/ \E k \in 1 .. Len(summaries.entries) : summaries.entries[k].item.kind # "dict"

RECURSIVE FlattenSummaries(_)
\* lines 357-364: the loop over data.items()
FlattenSummaries(entries) ==
    IF entries = <<>>
    THEN <<>>
    ELSE SummaryRows(Head(entries).rule_id, Head(entries).summaries)
            \o FlattenSummaries(Tail(entries))

\* lines 348-366: the rows returned, or raised when an exception leaves
FormatSummary(data) ==
    CASE data.kind = "raise" -> [raised |-> TRUE, rows |-> <<>>]
      [] data.kind = "other" -> [raised |-> TRUE, rows |-> <<>>]
      [] data.kind = "error" ->
            [raised |-> FALSE,
             rows |-> <<<<"-", "-", "Failed to retrieve summary from summarization service">>>>]
      [] OTHER ->
            IF \E k \in 1 .. Len(data.entries) : SummariesRaise(data.entries[k].summaries)
            THEN [raised |-> TRUE, rows |-> <<>>]
            ELSE [raised |-> FALSE, rows |-> FlattenSummaries(data.entries)]

\* lines 347-366 and 681-683: a click on Refresh Summary Responses
format_summary_responses ==
    LET f == FormatSummary(rule_responses)
    IN  /\ summary_response_table' = IF f.raised THEN summary_response_table ELSE f.rows
        /\ handled' = [handler |-> "format_summary_responses", raised |-> f.raised]
        /\ UNCHANGED <<dash, rule_responses, searchv, rulesv>>

\* ------------------------------------------------- format_search_responses
SearchRuleIds == {"r1", "r2"}

\* an item of a rule's results: a dict whose "video_id" and "message" are
\* missing, empty, a text or None, or something without .get
SearchItems ==
    {[kind |-> "dict", video_id |-> "", message |-> ""],
     [kind |-> "dict", video_id |-> Absent, message |-> ""],
     [kind |-> "dict", video_id |-> Absent, message |-> "m1"],
     [kind |-> "dict", video_id |-> "v1", message |-> ""],
     [kind |-> "dict", video_id |-> "v1", message |-> "m1"],
     [kind |-> "dict", video_id |-> None, message |-> None],
     [kind |-> "str", video_id |-> Absent, message |-> Absent]}

\* what a rule id maps to: a list of items, None, or a non-empty value whose
\* elements have no .get
ResultsValues ==
    [kind : {"list"}, items : UNION {[1 .. k -> SearchItems] : k \in 0 .. MaxItems}]
        \cup {[kind |-> "none", items |-> <<>>], [kind |-> "other", items |-> <<>>]}

\* the keys of the mapping, in its iteration order
SearchKeys ==
    {q \in UNION {[1 .. k -> SearchRuleIds] : k \in 0 .. MaxRules} :
        \A i, j \in 1 .. Len(q) : i # j => q[i] # q[j]}

\* a dict rule id -> results, in its iteration order
SearchDict(ids, rs) ==
    [kind |-> "dict",
     entries |-> [i \in 1 .. Len(ids) |-> [rule_id |-> ids[i], results |-> rs[i]]]]

\* fetch_search_responses() raises, or returns something that is not a dict
SearchFailures == [kind : {"raise", "other"}, entries : {<<>>}]

\* lines 374-375: item.get(key, "")
ItemGet(value) == IF value = Absent THEN "" ELSE value

\* the truth value of what ItemGet returned
NonEmpty(value) == value \notin {"", None}

\* mutant of SearchItemRow: the test is video_id and message
SearchItemRow_BothRequired(rule_id, item) ==
    LET video_id == ItemGet(item.video_id)
        message == ItemGet(item.message)
    IN  IF NonEmpty(video_id) /\ NonEmpty(message)
        THEN <<rule_id, video_id, message>>
        ELSE <<rule_id, "", "No event occurred for this rule.">>

\* lines 374-379: the row of one item
SearchItemRow(rule_id, item) ==
    LET video_id == ItemGet(item.video_id)
        message == ItemGet(item.message)
    IN  IF NonEmpty(video_id) \/ NonEmpty(message)
        THEN <<rule_id, video_id, message>>
        ELSE <<rule_id, "", "No event occurred for this rule.">>

\* line 372: if results
ResultsTruthy(results) ==
    \/ results.kind = "other"
    \/ results.kind = "list" /\ results.items # <<>>

\* lines 372-381: the rows of one rule id
SearchRows(rule_id, results) ==
    IF ResultsTruthy(results)
    THEN [k \in 1 .. Len(results.items) |-> SearchItemRow(rule_id, results.items[k])]
    ELSE <<<<rule_id, "", "No search results available.">>>>

\* lines 373-375 raise: an element of results has no .get
ResultsRaise(results) ==
    /\ ResultsTruthy(results)
    /\ \/ results.kind # "list"
       \/ \E k \in 1 .. Len(results.items) : results.items[k].kind # "dict"

RECURSIVE FlattenSearch(_)
\* lines 371-381: the loop over data.items()
FlattenSearch(entries) ==
    IF entries = <<>>
    THEN <<>>
    ELSE SearchRows(Head(entries).rule_id, Head(entries).results)
            \o FlattenSearch(Tail(entries))

\* lines 369-382: the rows returned, or raised when an exception leaves
FormatSearch(data) ==
    IF data.kind # "dict"
    THEN [raised |-> TRUE, rows |-> <<>>]
    ELSE IF \E k \in 1 .. Len(data.entries) : ResultsRaise(data.entries[k].results)
    THEN [raised |-> TRUE, rows |-> <<>>]
    ELSE [raised |-> FALSE, rows |-> FlattenSearch(data.entries)]

\* lines 368-382 and 691-693: a click on Refresh Search Responses
format_search_responses ==
    LET f == FormatSearch(search_responses)
    IN  /\ search_response_table' = IF f.raised THEN search_response_table ELSE f.rows
        /\ handled' = [handler |-> "format_search_responses", raised |-> f.raised]
        /\ UNCHANGED <<dash, search_responses, summaryv, rulesv>>

\* ------------------------------------------------------------ rules table
\* the text of a cell of the Delete column and the prompt of line 661,
\* without their icons
DeleteMarker == "Delete"

MsgDeletePrompt == "Click the delete icon to remove a rule"

\* the ids the backend gives its rules
RuleRecordIds == {"r1", "r2", "r3"}

\* a rule as fetch_rules lists it; a label may be any text, the marker too
RuleRecords ==
    [id : RuleRecordIds, camera : Cameras, label : {"person", DeleteMarker},
     action : {"Summarize"}]

\* the rules a backend may hold, no id twice
RuleLists ==
    {q \in UNION {[1 .. k -> RuleRecords] : k \in 0 .. MaxRules} :
        \A i, j \in 1 .. Len(q) : i # j => q[i].id # q[j].id}

\* lines 638-641: the rows built from what fetch_rules returned
LoadRows(rs) ==
    [k \in 1 .. Len(rs) |-> <<rs[k].id, rs[k].camera, rs[k].label, rs[k].action, DeleteMarker>>]

\* lines 636-641 and 664, 671: Refresh Rules or the initial load; fetch_rules
\* answers with the backend's rules (ok) or raises
load_rules(ok) ==
    /\ rules_table' = IF ok THEN LoadRows(rules) ELSE rules_table
    /\ handled' = [handler |-> "load_rules", raised |-> ~ok]
    /\ UNCHANGED <<dash, summaryv, searchv, rules, delete_status, evt>>

\* mutant of IsDeleteClick: the value of the clicked cell is not looked at
IsDeleteClick_AnyCell(value) == TRUE

\* line 645
IsDeleteClick(value) == value = DeleteMarker

\* what delete_rule_by_id does to the backend: "deleted" removes the rule
\* with that id, "failed" (an error result) and "raise" remove nothing
Backend(rs, rule_id, outcome) ==
    LET Kept(r) == r.id # rule_id
    IN  IF outcome = "deleted" THEN SelectSeq(rs, Kept) ELSE rs

\* lines 653-658: the first output, the result or the text of the except branch
DeleteStatus(outcome) ==
    IF outcome = "raise" THEN "Error: str(e)" ELSE "result " \o outcome

\* lines 643-668: a click on cell (k, c) of the rules table; outcome is what
\* delete_rule_by_id does when called, ok whether fetch_rules answers
delete_selected_rule(k, c, outcome, ok) ==
    /\ k \in 1 .. Len(rules_table)
    /\ LET value == rules_table[k][c]
           selected_row == rules_table[k]
           rule_id == selected_row[1]
       IN  IF IsDeleteClick(value)
           THEN /\ rules' = Backend(rules, rule_id, outcome)
                /\ evt' = [value |-> value, row_value |-> selected_row,
                           deleted |-> <<rule_id>>]
                /\ delete_status' = IF ok THEN DeleteStatus(outcome) ELSE delete_status
                /\ rules_table' = IF ok THEN LoadRows(rules') ELSE rules_table
           ELSE /\ rules' = rules
                /\ evt' = [value |-> value, row_value |-> selected_row, deleted |-> <<>>]
                /\ delete_status' = IF ok THEN MsgDeletePrompt ELSE delete_status
                /\ rules_table' = IF ok THEN LoadRows(rules) ELSE rules_table
    /\ handled' = [handler |-> "delete_selected_rule", raised |-> ~ok]
    /\ UNCHANGED <<dash, summaryv, searchv>>

\* ---------------------------------------------------------- specification
\* a click on process_btn with one of the given submissions
Click(submissions, responses) ==
    \E x \in submissions :
        wrapper_fn(x.now, x.camera, x.start, x.duration, x.action, responses)

Poll == \E i \in 1 .. MaxThreads : PollStep(i)

Refresh ==
    \E raw \in FSResponses :
        refresh_summary_status(raw) \/ auto_refresh_summary_status(raw)

\* The dashboard with its poll loops: submissions that pass or fail the
\* checks, answered by process_video in every way that matters to polling.
PollStarts(now) == {[kind |-> "float", t |-> now - 2], [kind |-> "float", t |-> now + 1]}

PollDurations == {[kind |-> "int", v |-> 1]}

PollResponses ==
    {PVRaise,
     [kind |-> "dict", status |-> "success", summary_id |-> NoRaw, message |-> Absent],
     [kind |-> "dict", status |-> "error", summary_id |-> [form |-> "str", id |-> "s1"],
      message |-> "msg"],
     [kind |-> "dict", status |-> "success", summary_id |-> [form |-> "dict", id |-> "s1"],
      message |-> Absent]}
        \cup [kind : {"dict"}, status : {"success"}, summary_id : [form : {"str"}, id : Sids],
              message : {Absent}]

PollSubmissions ==
    UNION {[now : {n}, camera : Cameras, start : PollStarts(n), duration : PollDurations,
            action : Actions] : n \in NowValues}

Next ==
    \/ Click(PollSubmissions, PollResponses)
    \/ WStopOld
    \/ WStart
    \/ WRegister
    \/ WReturn
    \/ Poll
    \/ Refresh

Spec == Init /\ [][Next]_vars

\* The submission handler on its own, over every kind of start and duration
\* and every shape of process_video response; loops it starts are not scheduled.
AllSubmissions ==
    UNION {[now : {n}, camera : Cameras, start : StartValues(n), duration : DurationValues,
            action : Actions] : n \in NowValues}

NextSubmit ==
    \/ Click(AllSubmissions, PVResponses)
    \/ WStopOld
    \/ WStart
    \/ WRegister
    \/ WReturn

SpecSubmit == Init /\ [][NextSubmit]_vars

\* Submissions and poll loops without the refresh handlers, which touch
\* nothing a loop reads.  Every started thread is scheduled again and again,
\* and a call of fetch_summary_status and a sleep come to an end.
NextLoops ==
    \/ Click(PollSubmissions, PollResponses)
    \/ WStopOld
    \/ WStart
    \/ WRegister
    \/ WReturn
    \/ Poll

FairSpec == Init /\ [][NextLoops]_vars /\ \A i \in 1 .. MaxThreads : WF_vars(PollStep(i))

\* The Auto-Route Events tab on its own, over every answer of the API client.
InitTables ==
    /\ InitDash
    /\ rule_responses \in RuleResponseValues
    /\ summary_response_table = <<>>
    /\ InitSearchTable
    /\ InitRulesTable
    /\ handled = NoHandler

NextTables ==
    \/ format_summary_responses

SpecTables == InitTables /\ [][NextTables]_vars

\* The Search Responses table on its own, over every answer of the API client.
InitSearch ==
    /\ InitDash
    /\ InitSummary
    /\ \/ search_responses \in SearchFailures
       \/ \E ids \in SearchKeys :
            \E rs \in [1 .. Len(ids) -> ResultsValues] :
                search_responses = SearchDict(ids, rs)
    /\ search_response_table = <<>>
    /\ InitRulesTable
    /\ handled = NoHandler

NextSearch ==
    \/ format_search_responses

SpecSearch == InitSearch /\ [][NextSearch]_vars

\* The Current Rules table on its own, over every backend of up to MaxRules
\* rules and every answer of delete_rule_by_id and fetch_rules.
InitRules ==
    /\ InitDash
    /\ InitSummary
    /\ InitSearchTable
    /\ rules \in RuleLists
    /\ rules_table = <<>>
    /\ delete_status = ""
    /\ evt = NoEvt
    /\ handled = NoHandler

DeleteOutcomes == {"deleted", "failed", "raise"}

NextRules ==
    \/ \E ok \in BOOLEAN : load_rules(ok)
    \/ \E k \in 1 .. MaxRules, c \in 1 .. 5, outcome \in DeleteOutcomes, ok \in BOOLEAN :
            delete_selected_rule(k, c, outcome, ok)

SpecRules == InitRules /\ [][NextRules]_vars

\* ------------------------------------------------------------------ claims
Submitted == call.action # None

IsTime(start) == start.kind \in {"float", "int", "datetime"}

StartInWindow(c) == IsTime(c.start) /\ c.start.t <= c.now /\ c.start.t >= c.now - Hours24

BadDuration(d) == d.kind # "int" \/ d.v <= 0

RejectedWith(message) ==
    /\ call.pc = "idle"
    /\ call.outcome = "rejected"
    /\ call.result = NoResult
    /\ call.toast = message
    /\ call.calls = 0
    /\ call.started = 0

\* C1: a submission whose start is after now, or more than 24 hours before
\* now, is rejected with the matching start-time message, whatever its other
\* inputs are; process_video is not called and no poll loop is started.
C1_StartOutsideWindowRejected ==
    (Submitted /\ IsTime(call.start)) =>
        /\ call.start.t > call.now => RejectedWith(MsgFuture)
        /\ call.start.t < call.now - Hours24 => RejectedWith(MsgTooOld)

C1_Witness ==
    /\ RejectedWith(MsgTooOld)
    /\ call.start.t = call.now - Hours24 - 1
    /\ call.duration.kind = "int" /\ call.duration.v = 1
    /\ call.action = "Summarize"
    /\ Len(threads) > 0

\* C2 as stated: every submission whose duration is <= 0 or not a number is
\* rejected with the duration message.
C2_Original ==
    (Submitted /\ BadDuration(call.duration)) => RejectedWith(MsgDuration)

\* C2, amended: a submission whose duration is <= 0 or not a number is never
\* forwarded to process_video, and when its start passes the start checks the
\* rejection is the duration message.
C2_BadDurationRejected ==
    (Submitted /\ BadDuration(call.duration)) =>
        /\ call.pc = "idle" /\ call.outcome = "rejected"
        /\ call.calls = 0 /\ call.started = 0
        /\ StartInWindow(call) => RejectedWith(MsgDuration)

C2_Witness ==
    /\ RejectedWith(MsgDuration)
    /\ call.duration.kind = "none"
    /\ call.start.t = call.now - 1

\* C3 as stated: every submission with start + duration later than now is
\* rejected with the end-time message.
C3_Original ==
    (Submitted /\ IsTime(call.start) /\ call.duration.kind = "int"
        /\ call.start.t + call.duration.v > call.now) => RejectedWith(MsgEndFuture)

\* C3, amended: a submission with start + duration later than now is never
\* forwarded to process_video; when its start passes the start checks and its
\* duration is a positive integer the rejection is the end-time message, as
\* for a start equal to now with any positive duration.
C3_EndInFutureRejected ==
    (Submitted /\ IsTime(call.start) /\ call.duration.kind = "int"
        /\ call.start.t + call.duration.v > call.now) =>
        /\ call.pc = "idle" /\ call.outcome = "rejected"
        /\ call.calls = 0 /\ call.started = 0
        /\ (StartInWindow(call) /\ call.duration.v > 0) => RejectedWith(MsgEndFuture)

C3_Witness ==
    /\ RejectedWith(MsgEndFuture)
    /\ call.start.t = call.now
    /\ call.duration.v = 2

Threads == 1 .. Len(threads)

\* the summary id a response carries, as lines 161-166 and 173-174 read it
HasSummaryId(res) == res.summary_id.form # "none" /\ res.summary_id.id # ""

\* the loop registered under the summary id of the last submission is the
\* one that submission started
C4_Registered ==
    (/\ call.pc = "idle" /\ call.outcome = "returned" /\ call.action = "Summarize"
     /\ call.result.status = "success" /\ HasSummaryId(call.result)) =>
        LET s == call.result.summary_id.id
        IN  /\ call.started = 1
            /\ s \in DOMAIN polling_threads
            /\ polling_threads[s] = Len(threads)
            /\ threads[Len(threads)].sid = s

\* C4: after a valid Summarize submission answered with status success and a
\* summary id s, polling_threads[s] is the loop this submission started; a
\* loop registered under s before has its stop flag set before the new thread
\* is started and before the entry is replaced.
C4_StopsOldLoopFirst ==
    [][/\ Len(threads') > Len(threads) =>
            LET s == threads'[Len(threads')].sid
            IN  s \in DOMAIN polling_threads => threads[polling_threads[s]].stop
       /\ \A s \in DOMAIN polling_threads' :
            (s \notin DOMAIN polling_threads \/ polling_threads'[s] # polling_threads[s]) =>
                /\ polling_threads'[s] = Len(threads)
                /\ threads[Len(threads)].sid = s
                /\ s \in DOMAIN polling_threads =>
                        /\ polling_threads[s] < Len(threads)
                        /\ threads[polling_threads[s]].stop
       /\ C4_Registered']_vars

C4_Witness ==
    /\ call.pc = "idle" /\ call.outcome = "returned" /\ call.stops = 1
    /\ Len(threads) = 2
    /\ threads[1].sid = threads[2].sid
    /\ threads[1].stop /\ ~threads[2].stop
    /\ polling_threads[threads[2].sid] = 2

\* C5: no handler ends by propagating an exception.
C5_NoHandlerPropagates == call.outcome # "raised" /\ ~handled.raised

\* C6: a poll loop is started only by a Summarize submission; an Add to Search
\* submission that passes the checks calls process_video once, starts no
\* thread, sets no stop flag and leaves polling_threads as it was, whatever the
\* response holds.
C6_OnlySummarizePolls ==
    [][/\ Len(threads') > Len(threads) => call.action = "Summarize"
       /\ call'.action = "Add to Search" =>
            /\ polling_threads' = polling_threads
            /\ Len(threads') = Len(threads)
            /\ \A i \in Threads : threads'[i].stop = threads[i].stop
            /\ call'.pc = "idle" /\ call'.started = 0 /\ call'.stops = 0
            /\ call'.outcome # "rejected" => call'.calls = 1]_vars

C6_Witness ==
    /\ call.action = "Add to Search" /\ call.outcome = "returned" /\ call.calls = 1
    /\ call.result.status = "success" /\ call.result.summary_id.id = "s2"
    /\ "s2" \notin DOMAIN polling_threads
    /\ Len(threads) = 1 /\ ~threads[1].stop

\* C7: a loop whose fetch returned completed or failed, or failed, has ended
\* and fetches no more; a loop that ended without its stop flag set ended on
\* such a fetch; after any other fetch the loop goes on to sleep and check.
C7_StopsOnTerminalOrError ==
    [][\A i \in Threads :
        LET t == threads[i]
        IN  /\ t.last \in {"completed", "failed", "error"} => t.pc = "done"
            /\ t.pc = "done" => (threads'[i].pc = "done" /\ threads'[i].polls = t.polls)
            /\ (t.pc = "done" /\ ~t.stop) => t.last \in {"completed", "failed", "error"}
            /\ (threads'[i].polls > t.polls
                    /\ threads'[i].last \notin {"completed", "failed", "error"}) =>
                        threads'[i].pc = "sleep"]_vars

C7_Witness ==
    \E i \in Threads :
        /\ threads[i].polls = 2 /\ threads[i].last = "failed"
        /\ threads[i].pc = "done" /\ ~threads[i].stop

\* C8 as stated: a loop whose stop flag is set starts no new call of
\* fetch_summary_status.
C8_Original == \A i \in Threads : threads[i].after_stop = 0

\* C8, amended: a loop whose stop flag is set starts at most one more call of
\* fetch_summary_status (the one whose loop-condition check came before the
\* flag was set) and eventually terminates.
C8_StopEndsLoop ==
    /\ [](\A i \in Threads : threads[i].after_stop <= 1)
    /\ \A i \in 1 .. MaxThreads :
            (i \in Threads /\ threads[i].stop) ~> (i \in Threads /\ threads[i].pc = "done")

C8_Witness ==
    \E i \in Threads :
        threads[i].stop /\ threads[i].after_stop = 1 /\ threads[i].pc = "done"

RowsOf(rows, r) == {k \in 1 .. Len(rows) : rows[k][1] = r}

\* every value is a dict or None and every item a dict
WellFormed(data) ==
    \A k \in 1 .. Len(data.entries) :
        LET m == data.entries[k].summaries
        IN  /\ m.kind \in {"dict", "none"}
            /\ \A j \in 1 .. Len(m.entries) : m.entries[j].item.kind = "dict"

\* C10: format_summary_responses gives, for every rule id with no summaries,
\* the one row [rule_id, "", "No summaries available."], for every rule id
\* with n >= 1 summaries n rows [rule_id, summary_id, summary text], one per
\* summary, and no other rows.
C10_SummaryRows ==
    (/\ handled.handler = "format_summary_responses"
     /\ rule_responses.kind = "dict"
     /\ WellFormed(rule_responses)) =>
        LET rows == summary_response_table
            es == rule_responses.entries
        IN  /\ ~handled.raised
            /\ \A k \in 1 .. Len(es) :
                LET r == es[k].rule_id
                    m == es[k].summaries.entries
                    own == RowsOf(rows, r)
                IN  IF Len(m) = 0
                    THEN /\ Cardinality(own) = 1
                         /\ \A i \in own : rows[i] = <<r, "", "No summaries available.">>
                    ELSE /\ Cardinality(own) = Len(m)
                         /\ \A j \in 1 .. Len(m) :
                                \E i \in own :
                                    /\ rows[i][2] = m[j].summary_id
                                    /\ rows[i][3] = IF m[j].item.summary = Absent
                                                    THEN "No summary text"
                                                    ELSE m[j].item.summary
            /\ \A i \in 1 .. Len(rows) : \E k \in 1 .. Len(es) : rows[i][1] = es[k].rule_id

C10_Witness ==
    /\ handled = [handler |-> "format_summary_responses", raised |-> FALSE]
    /\ rule_responses.kind = "dict"
    /\ Len(rule_responses.entries) = 2
    /\ rule_responses.entries[1].rule_id = "r1"
    /\ rule_responses.entries[1].summaries = [kind |-> "dict", entries |-> <<>>]
    /\ Len(rule_responses.entries[2].summaries.entries) = 2
    /\ Len(summary_response_table) = 3
    /\ summary_response_table[1] = <<"r1", "", "No summaries available.">>

\* every value is a list or None and every item a dict
WellFormedSearch(data) ==
    \A k \in 1 .. Len(data.entries) :
        LET m == data.entries[k].results
        IN  /\ m.kind \in {"list", "none"}
            /\ \A j \in 1 .. Len(m.items) : m.items[j].kind = "dict"

\* a field of an item that is missing, "" or None
EmptyField(value) == value \in {Absent, "", None}

\* the row the claim gives an item
ClaimedItemRow(r, item) ==
    IF EmptyField(item.video_id) /\ EmptyField(item.message)
    THEN <<r, "", "No event occurred for this rule.">>
    ELSE <<r, IF item.video_id = Absent THEN "" ELSE item.video_id,
              IF item.message = Absent THEN "" ELSE item.message>>

RECURSIVE ClaimedRowCount(_)
\* the sum over the rules of max(1, number of items)
ClaimedRowCount(entries) ==
    IF entries = <<>>
    THEN 0
    ELSE (IF Len(Head(entries).results.items) = 0 THEN 1 ELSE Len(Head(entries).results.items))
            + ClaimedRowCount(Tail(entries))

\* C11: format_search_responses gives, for every rule id, one row per result
\* item, in the order of the items, and exactly one placeholder row when the
\* rule has no items: an item whose video_id and message are both empty gives
\* [rule_id, "", "No event occurred for this rule."], any other item
\* [rule_id, video_id, message], a rule without items
\* [rule_id, "", "No search results available."]; the number of rows is the
\* sum over the rules of max(1, number of items).
C11_SearchRows ==
    (/\ handled.handler = "format_search_responses"
     /\ search_responses.kind = "dict"
     /\ WellFormedSearch(search_responses)) =>
        LET rows == search_response_table
            es == search_responses.entries
        IN  /\ ~handled.raised
            /\ \A k \in 1 .. Len(es) :
                LET r == es[k].rule_id
                    m == es[k].results.items
                    Own(row) == row[1] = r
                    own == SelectSeq(rows, Own)
                IN  IF Len(m) = 0
                    THEN own = <<<<r, "", "No search results available.">>>>
                    ELSE /\ Len(own) = Len(m)
                         /\ \A j \in 1 .. Len(m) : own[j] = ClaimedItemRow(r, m[j])
            /\ Len(rows) = ClaimedRowCount(es)

C11_Witness ==
    /\ handled = [handler |-> "format_search_responses", raised |-> FALSE]
    /\ search_responses.kind = "dict"
    /\ Len(search_responses.entries) = 2
    /\ search_responses.entries[1] =
            [rule_id |-> "r1",
             results |-> [kind |-> "list",
                          items |-> <<[kind |-> "dict", video_id |-> "", message |-> ""],
                                      [kind |-> "dict", video_id |-> "v1", message |-> ""]>>]]
    /\ search_responses.entries[2].results = [kind |-> "list", items |-> <<>>]
    /\ search_response_table =
            <<<<"r1", "", "No event occurred for this rule.">>,
              <<"r1", "v1", "">>,
              <<"r2", "", "No search results available.">>>>

\* the table shows the rules the backend holds, one row each with the marker
ShowsRules(table, rs) ==
    /\ Len(table) = Len(rs)
    /\ \A k \in 1 .. Len(rs) :
            table[k] = <<rs[k].id, rs[k].camera, rs[k].label, rs[k].action, DeleteMarker>>

\* C12: a click on a cell of the rules table deletes a rule only when the
\* cell's value is the delete marker.  For any other value delete_rule_by_id
\* is not called, the rules are unchanged and, fetch_rules answering, the
\* handler returns the prompt with the freshly fetched rules; for the marker
\* delete_rule_by_id is called exactly once, with the id in the first column
\* of the clicked row, no other rule goes, and the table is fetched after the
\* deletion.
C12_DeleteOnlyOnMarker ==
    [][handled'.handler = "delete_selected_rule" =>
        /\ \E k \in 1 .. Len(rules_table) :
                /\ evt'.row_value = rules_table[k]
                /\ \E c \in 1 .. 5 : evt'.value = rules_table[k][c]
        /\ IF evt'.value # DeleteMarker
           THEN /\ evt'.deleted = <<>>
                /\ rules' = rules
                /\ ~handled'.raised =>
                        /\ delete_status' = MsgDeletePrompt
                        /\ ShowsRules(rules_table', rules)
           ELSE /\ evt'.deleted = <<evt'.row_value[1]>>
                /\ \A i \in 1 .. Len(rules) :
                        rules[i].id # evt'.row_value[1] =>
                            \E j \in 1 .. Len(rules') : rules'[j] = rules[i]
                /\ \A j \in 1 .. Len(rules') : \E i \in 1 .. Len(rules) : rules[i] = rules'[j]
                /\ ~handled'.raised => ShowsRules(rules_table', rules')]_vars

C12_Witness ==
    /\ handled = [handler |-> "delete_selected_rule", raised |-> FALSE]
    /\ evt.value = DeleteMarker
    /\ evt.row_value = <<"r1", "cam1", "person", "Summarize", DeleteMarker>>
    /\ evt.deleted = <<"r1">>
    /\ Len(rules) = 1 /\ rules[1].id = "r2"
    /\ Len(rules_table) = 1 /\ rules_table[1][1] = "r2"
    /\ delete_status = "result deleted"

\* C13: wrapper_fn reports the first check that fails, in the order: start a
\* recognized time value, start not after now, start within the last 24
\* hours, duration a positive integer, start + duration not after now.  A
\* submission that passes the five checks is forwarded to process_video
\* exactly once, one that fails a check is not forwarded.
C13_FirstFailingCheck ==
    Submitted =>
        LET t == call.start.t
            d == call.duration
        IN  /\ ~IsTime(call.start) => RejectedWith(MsgInvalidStart)
            /\ (IsTime(call.start) /\ t > call.now) => RejectedWith(MsgFuture)
            /\ (IsTime(call.start) /\ t <= call.now /\ t < call.now - Hours24) =>
                    RejectedWith(MsgTooOld)
            /\ (StartInWindow(call) /\ BadDuration(d)) => RejectedWith(MsgDuration)
            /\ (StartInWindow(call) /\ ~BadDuration(d) /\ t + d.v > call.now) =>
                    RejectedWith(MsgEndFuture)
            /\ (StartInWindow(call) /\ ~BadDuration(d) /\ t + d.v <= call.now) =>
                    (call.calls = 1 /\ call.outcome # "rejected")
            /\ call.outcome = "rejected" => call.calls = 0
            /\ call.calls \in {0, 1}

C13_Witness ==
    /\ RejectedWith(MsgFuture)
    /\ call.start = [kind |-> "float", t |-> call.now + 1]
    /\ call.duration = [kind |-> "int", v |-> 0]
    /\ call.action = "Add to Search"

\* the loops started for summary id s whose stop flag is unset
Unstopped(s) == {i \in Threads : threads[i].sid = s /\ ~threads[i].stop}

\* C14: with one submission handler running at a time, every summary id has
\* at most one poll loop whose stop flag is unset, and between handlers that
\* loop is the one polling_threads records under the id; an entry of
\* polling_threads is added or replaced, never removed, and no step of a
\* poll loop changes the dictionary.
C14_OneLoopPerSummary ==
    /\ [](\A s \in Sids :
            /\ Cardinality(Unstopped(s)) <= 1
            /\ call.pc = "idle" =>
                    Unstopped(s) = IF s \in DOMAIN polling_threads
                                   THEN {polling_threads[s]}
                                   ELSE {})
    /\ [][/\ DOMAIN polling_threads \subseteq DOMAIN polling_threads'
          /\ (threads' # threads /\ call' = call) => polling_threads' = polling_threads
          /\ polling_threads' # polling_threads => call.pc = "register"]_vars

C14_Witness ==
    /\ call.pc = "idle"
    /\ Len(threads) = 2
    /\ threads[1].sid = "s1" /\ threads[2].sid = "s2"
    /\ threads[1].pc = "done" /\ threads[1].last = "completed"
    /\ ~threads[1].stop /\ ~threads[2].stop
    /\ DOMAIN polling_threads = {"s1", "s2"}
    /\ polling_threads["s1"] = 1 /\ polling_threads["s2"] = 2

====
